---- MODULE Spec2Model ----
(***************************************************************************)
(* Model of src/main.go: the scroll (cursor) pagination helpers and the    *)
(* loop of main that drives them, and the bulk insert / upsert / delete    *)
(* helpers with their common dispatcher performESBulk.                     *)
(*                                                                         *)
(* One behaviour exercises one entry point of the package, chosen in Init  *)
(* (op): the scroll loop of main, a caller of the scroll helpers, or one   *)
(* of the three bulk helpers.  The engine is the environment: every        *)
(* request is answered by a response drawn from the answers the engine can *)
(* give in its current state.                                              *)
(*                                                                         *)
(* Init is main at line 64, where the collection starts: the plain query   *)
(* of lines 50-59 before it ignores its errors and shares no state with    *)
(* the collection.                                                         *)
(*                                                                         *)
(* Encodings.  A Go string that is a scroll id is a sequence: "" is <<>>.  *)
(* A list of hits is run-length encoded as a sequence of runs              *)
(* [first, n] (documents first .. first+n-1 of the ranked result set), so  *)
(* that pages of 5000 hits stay small; len() is HitsLen and append is \o.  *)
(* A slice ids[lo:hi] of the identifier list is the record [lo, hi].       *)
(* A bulk body is the record of its action and slice; WireLen and WireLine *)
(* give the number of its lines and each line as the loops write them.     *)
(***************************************************************************)
EXTENDS Integers, Sequences, FiniteSets, TLC

\* ---------------------------------------------------------------- bounds
MaxDocs == 5
MaxSize == 2
MaxCalls == 3
MaxFullPages == 2
MaxChunks == 2
MaxOps == 3

\* ------------------------------------------------------ program constants
PageSize == 5000
LoopBound == 5
LoopStep == 5000
ChunkSize == 20000
RetryOnConflict == 3

VARIABLES
    op,            \* the entry point this behaviour exercises
    total,         \* number of documents of the index that match the query
    scrolls,       \* engine: the scroll contexts opened so far
    requests,      \* every request sent to the engine, in order
    responses,     \* the engine's answer to each request, in order
    pc,            \* position of the running entry point
    i,             \* main: loop variable i (line 67)
    scrollID,      \* main: scrollID (line 65); caller: the cursor it holds
    esDocuments,   \* main: esDocuments (line 64)
    err,           \* error the running entry point ended with
    stdout,        \* what main printed (line 77)
    size,          \* caller: page size it passes to scrollSearch
    calls,         \* caller: every call made, with arguments and results
    ids,           \* performESDelete: the identifiers, as the slice ids[lo:hi]
    documents,     \* performESInsert / performESUpsert: the documents, a slice
    badDoc,        \* position of a document json.Marshal fails on, 0 if none
    bulkErrs,      \* what performESBulk returned for each bulk request
    cancelled,     \* the caller of the running entry point has given up
    callerQuery    \* caller: the query map it passes to GetESDataAndBuildScroll

vars == <<op, total, scrolls, requests, responses, pc, i, scrollID,
          esDocuments, err, stdout, size, calls, ids, documents, badDoc,
          bulkErrs, cancelled, callerQuery>>

readVars == <<total, scrolls, scrollID, esDocuments, stdout, size, calls>>
bulkVars == <<ids, documents, badDoc>>

\* ------------------------------------------------------------ Go values
Nil == "nil"
EmptyScrollID == <<>>
NoRequest == [kind |-> "none"]
NoResponse == [status |-> "none"]

Min2(a, b) == IF a <= b THEN a ELSE b

RECURSIVE HitsLen(_)
HitsLen(hits) ==
    IF hits = <<>> THEN 0 ELSE hits[1].n + HitsLen(Tail(hits))

\* (*ESDocument)(nil) and the zero ESDocument{}
NilDocument == [isNil |-> TRUE, total |-> 0, hits |-> <<>>]
ZeroDocument == [isNil |-> FALSE, total |-> 0, hits |-> <<>>]

\* ---------------------------------------------------------------- engine
\* The page a scroll context serves next: the following `sz` documents of
\* the `total` matching ones, `served` of which have been returned already.
NextHits(served, sz) ==
    LET n == Min2(total - served, sz) IN
    IF n <= 0 THEN <<>> ELSE <<[first |-> served + 1, n |-> n]>>

FailureStatuses == {"transport", "status", "parse"}

\* A search opens a context; a scroll must name one the engine holds.
KnownContext(req) ==
    \/ req.kind = "search"
    \/ /\ Len(req.scroll_id) >= 1
       /\ req.scroll_id[1] \in 1 .. Len(scrolls)

\* The answers of the engine to a search or scroll request: the request is
\* lost (transport), refused with an error envelope (status), answered with
\* an unreadable body (parse), or answered with the next page and a token.
EngineAnswers(req) ==
    LET ctx == IF req.kind = "search" THEN Len(scrolls) + 1 ELSE req.scroll_id[1]
        served == IF req.kind = "search" THEN 0 ELSE scrolls[ctx].served
        sz == IF req.kind = "search" THEN req.query.size ELSE scrolls[ctx].size
        hits == NextHits(served, sz)
        after == [size |-> sz, served |-> served + HitsLen(hits),
                  pages |-> IF req.kind = "search" THEN 1 ELSE scrolls[ctx].pages + 1]
        okAnswer == [resp |-> [status |-> "ok",
                               result |-> [scroll_id |-> <<ctx, after.pages>>,
                                           total |-> total, hits |-> hits]],
                     scrolls |-> IF req.kind = "search"
                                 THEN Append(scrolls, after)
                                 ELSE [scrolls EXCEPT ![ctx] = after]]
        failures == {[resp |-> [status |-> s], scrolls |-> scrolls] :
                        s \in FailureStatuses}
    IN  IF KnownContext(req) THEN {okAnswer} \cup failures ELSE failures

\* ------------------------------------------------------- read-path code
FetchError(resp) ==
    CASE resp.status = "transport" -> "Error getting response"
      [] resp.status = "status" -> "error response"
      [] resp.status = "parse" -> "Error parsing the response body"
      [] OTHER -> Nil

TokenWhenFullPage(hits, query, result) ==
    IF HitsLen(hits) = query.size THEN result.scroll_id ELSE EmptyScrollID

PerformESQueryAndBuildScroll(query, resp) ==
    IF resp.status # "ok"
    THEN [resultList |-> <<>>, scrollID |-> EmptyScrollID, err |-> FetchError(resp)]
    ELSE [resultList |-> <<resp.result>>,
          scrollID |-> TokenWhenFullPage(resp.result.hits, query, resp.result),
          err |-> Nil]

\* json.Marshal of each result map and json.Unmarshal into ESDocument keep
\* hits.total.value and hits.hits and drop every other key (_scroll_id).
RECURSIVE BuildDocument(_, _)
BuildDocument(response, resultList) ==
    IF resultList = <<>> THEN response
    ELSE BuildDocument([isNil |-> FALSE,
                        total |-> resultList[1].total,
                        hits |-> response.hits \o resultList[1].hits],
                       Tail(resultList))

GetESDataAndBuildScroll(query, resp) ==
    LET r == PerformESQueryAndBuildScroll(query, resp) IN
    IF r.err # Nil
    THEN [doc |-> NilDocument, scrollID |-> EmptyScrollID, err |-> r.err]
    ELSE [doc |-> BuildDocument(ZeroDocument, r.resultList),
          scrollID |-> r.scrollID, err |-> Nil]

TokenWhenHits(hits, result) ==
    IF HitsLen(hits) > 0 THEN result.scroll_id ELSE EmptyScrollID

\* resp is NoResponse when the function returns before sending a request
PerformESQueryWithScroll(id, resp) ==
    IF id = EmptyScrollID
    THEN [resultList |-> <<>>, scrollID |-> EmptyScrollID,
          err |-> "scrollID can not be empty"]
    ELSE IF resp.status # "ok"
    THEN [resultList |-> <<>>, scrollID |-> EmptyScrollID, err |-> FetchError(resp)]
    ELSE [resultList |-> <<resp.result>>,
          scrollID |-> TokenWhenHits(resp.result.hits, resp.result),
          err |-> Nil]

PerformESQueryWithScrollRequestUnguarded(id) ==
    [kind |-> "scroll", scroll_id |-> id]

\* The request PerformESQueryWithScroll sends: none for an empty scroll id
\* (lines 471-473), else one scroll request with the id (lines 478-483).
PerformESQueryWithScrollRequest(id) ==
    IF id = EmptyScrollID THEN NoRequest
    ELSE [kind |-> "scroll", scroll_id |-> id]

GetESDataWithScrollKeepsToken(id, resp) ==
    LET r == PerformESQueryWithScroll(id, resp) IN
    IF r.err # Nil
    THEN [doc |-> NilDocument, scrollID |-> id, err |-> r.err]
    ELSE [doc |-> BuildDocument(ZeroDocument, r.resultList),
          scrollID |-> r.scrollID, err |-> Nil]

GetESDataWithScroll(id, resp) ==
    LET r == PerformESQueryWithScroll(id, resp) IN
    IF r.err # Nil
    THEN [doc |-> NilDocument, scrollID |-> EmptyScrollID, err |-> r.err]
    ELSE [doc |-> BuildDocument(ZeroDocument, r.resultList),
          scrollID |-> r.scrollID, err |-> Nil]

scrollSearchRequestResend(from, sz, id) ==
    IF from = 0 \/ id # EmptyScrollID
    THEN [kind |-> "search", query |-> [size |-> sz]]
    ELSE NoRequest

\* The request scrollSearch sends: the search of the first page when
\* from = 0, a scroll when it holds a token, none otherwise.
scrollSearchRequest(from, sz, id) ==
    IF from = 0 THEN [kind |-> "search", query |-> [size |-> sz]]
    ELSE IF id # EmptyScrollID THEN PerformESQueryWithScrollRequest(id)
    ELSE NoRequest

scrollSearch(from, sz, id, resp) ==
    IF from = 0
    THEN LET r == GetESDataAndBuildScroll([size |-> sz], resp) IN
         IF r.err # Nil
         THEN [doc |-> NilDocument, scrollID |-> EmptyScrollID, err |-> r.err]
         ELSE r
    ELSE IF id # EmptyScrollID
    THEN LET r == GetESDataWithScroll(id, resp) IN
         IF r.err # Nil
         THEN [doc |-> NilDocument, scrollID |-> r.scrollID, err |-> r.err]
         ELSE r
    ELSE [doc |-> ZeroDocument, scrollID |-> EmptyScrollID, err |-> Nil]

\* ------------------------------------------------------------------ main
LoopCondition(iv, id) == iv <= LoopBound /\ (iv = 0 \/ id # EmptyScrollID)

AppendPageTwice(docs, page) == Append(Append(docs, page), page)

AppendPage(docs, page) == Append(docs, page)

\* One iteration of the loop of main (lines 67-76).
MainIterate ==
    /\ op = "main" /\ pc = "loop"
    /\ LoopCondition(i, scrollID)
    /\ LET req == scrollSearchRequest(i, PageSize, scrollID) IN
       \E a \in IF req = NoRequest
                THEN {[resp |-> NoResponse, scrolls |-> scrolls]}
                ELSE EngineAnswers(req) :
          LET r == scrollSearch(i, PageSize, scrollID, a.resp) IN
          /\ requests' = IF req = NoRequest THEN requests ELSE Append(requests, req)
          /\ responses' = IF req = NoRequest THEN responses ELSE Append(responses, a.resp)
          /\ scrolls' = a.scrolls
          /\ IF r.err # Nil
             THEN /\ pc' = "returned"
                  /\ err' = r.err
                  /\ UNCHANGED <<i, scrollID, esDocuments>>
             ELSE /\ scrollID' = r.scrollID
                  /\ esDocuments' = AppendPage(esDocuments, r.doc)
                  /\ i' = i + LoopStep
                  /\ UNCHANGED <<pc, err>>
    /\ UNCHANGED <<op, total, stdout, size, calls, bulkVars, cancelled, callerQuery, bulkErrs>>

\* The loop condition fails: main prints what it collected (line 77).
MainPrint ==
    /\ op = "main" /\ pc = "loop"
    /\ ~LoopCondition(i, scrollID)
    /\ stdout' = Append(stdout, esDocuments)
    /\ pc' = "printed"
    /\ UNCHANGED <<op, total, scrolls, requests, responses, i, scrollID,
                   esDocuments, err, size, calls, bulkVars, cancelled, callerQuery, bulkErrs>>

\* ---------------------------------------------------------------- caller
\* A caller of scrollSearch that keeps the returned token as its cursor,
\* the way main does (line 74); from is 0 or any later offset.
CallScrollSearch(from) ==
    /\ op = "scroll" /\ pc = "loop"
    /\ Len(calls) < MaxCalls
    /\ LET req == scrollSearchRequest(from, size, scrollID) IN
       \E a \in IF req = NoRequest
                THEN {[resp |-> NoResponse, scrolls |-> scrolls]}
                ELSE EngineAnswers(req) :
          LET r == scrollSearch(from, size, scrollID, a.resp) IN
          /\ requests' = IF req = NoRequest THEN requests ELSE Append(requests, req)
          /\ responses' = IF req = NoRequest THEN responses ELSE Append(responses, a.resp)
          /\ scrolls' = a.scrolls
          /\ calls' = Append(calls, [fn |-> "scrollSearch", from |-> from,
                                     size |-> size, scrollID |-> scrollID,
                                     req |-> req, resp |-> a.resp, ret |-> r])
          /\ scrollID' = IF r.err = Nil THEN r.scrollID ELSE scrollID
    /\ UNCHANGED <<op, total, pc, i, esDocuments, err, stdout, size, bulkVars, cancelled, callerQuery, bulkErrs>>

QueryAfterFetchResized(q, resp) == [q EXCEPT !.size = 0]

\* The caller's map after PerformESQueryAndBuildScroll: the function encodes
\* it (line 381) and reads its size (line 423) and never assigns to it.
QueryAfterFetch(q, resp) == q

\* A caller of the exported GetESDataAndBuildScroll with its own query map.
CallGetESDataAndBuildScroll ==
    /\ op = "scroll" /\ pc = "loop"
    /\ Len(calls) < MaxCalls
    /\ LET req == [kind |-> "search", query |-> callerQuery] IN
       \E a \in EngineAnswers(req) :
          LET r == GetESDataAndBuildScroll(callerQuery, a.resp) IN
          /\ requests' = Append(requests, req)
          /\ responses' = Append(responses, a.resp)
          /\ scrolls' = a.scrolls
          /\ callerQuery' = QueryAfterFetch(callerQuery, a.resp)
          /\ calls' = Append(calls, [fn |-> "GetESDataAndBuildScroll", from |-> 0,
                                     size |-> callerQuery.size, scrollID |-> scrollID,
                                     query |-> callerQuery,
                                     req |-> req, resp |-> a.resp, ret |-> r])
          /\ scrollID' = IF r.err = Nil THEN r.scrollID ELSE scrollID
    /\ UNCHANGED <<op, total, pc, i, esDocuments, err, stdout, size, bulkVars, cancelled, bulkErrs>>

\* A caller of the exported GetESDataWithScroll with the cursor it holds.
CallGetESDataWithScroll ==
    /\ op = "scroll" /\ pc = "loop"
    /\ Len(calls) < MaxCalls
    /\ Len(calls) > 0
    /\ LET req == PerformESQueryWithScrollRequest(scrollID) IN
       \E a \in IF req = NoRequest
                THEN {[resp |-> NoResponse, scrolls |-> scrolls]}
                ELSE EngineAnswers(req) :
          LET r == GetESDataWithScroll(scrollID, a.resp) IN
          /\ requests' = IF req = NoRequest THEN requests ELSE Append(requests, req)
          /\ responses' = IF req = NoRequest THEN responses ELSE Append(responses, a.resp)
          /\ scrolls' = a.scrolls
          /\ calls' = Append(calls, [fn |-> "GetESDataWithScroll", from |-> LoopStep,
                                     size |-> size, scrollID |-> scrollID,
                                     req |-> req, resp |-> a.resp, ret |-> r])
          /\ scrollID' = IF r.err = Nil THEN r.scrollID ELSE scrollID
    /\ UNCHANGED <<op, total, pc, i, esDocuments, err, stdout, size, bulkVars, cancelled, callerQuery, bulkErrs>>

\* ------------------------------------------------------------ write path
SliceLen(s) == s.hi - s.lo

\* ids[lo:hi] of a slice
SubSlice(s, lo, hi) == [lo |-> s.lo + lo, hi |-> s.lo + hi]

\* The answers of the engine to a bulk request: the request cannot be sent
\* (transport), the response has an error status (status), its body cannot
\* be decoded (parse), or it carries one status per item, `failed` being the
\* positions of the items the engine rejected.
BulkAnswers(body) ==
    {[status |-> s, failed |-> {}] : s \in {"transport", "status", "parse"}}
    \cup
    {[status |-> "ok", failed |-> f] :
        f \in {{}} \cup {{p} : p \in {body.lo + 1, body.hi} \cap (body.lo + 1 .. body.hi)}}

\* err as req.Do leaves it (line 824)
DoError(resp) == IF resp.status = "transport" THEN "transport error" ELSE Nil

IsError(resp) == resp.status = "status"

performESBulkItemFatal(resp) ==
    LET e == DoError(resp) IN
    IF e # Nil THEN e
    ELSE IF IsError(resp) THEN e
    ELSE IF resp.failed # {} THEN "item failure"
    ELSE Nil

performESBulk(resp) ==
    LET e == DoError(resp) IN
    IF e # Nil THEN e
    ELSE IF IsError(resp) THEN e
    ELSE Nil

BulkRequest(body) == [kind |-> "bulk", body |-> body]

ChunkEndShort(iv, n) == Min2(iv + ChunkSize - 1, n)

\* endIndex of the chunk that starts at iv (lines 698-701)
ChunkEnd(iv, n) == Min2(iv + ChunkSize, n)

DeleteLoopConditionShort(iv, n) == iv + ChunkSize < n

\* i < len(ids) (line 697)
DeleteLoopCondition(iv, n) == iv < n

DeleteStepStay(iv) == iv

\* i += 20000 (line 697)
DeleteStep(iv) == iv + ChunkSize

\* The delete headers of ids[lo:hi], one line per identifier, in order.
DeleteBody(chunk) == [action |-> "delete", lo |-> chunk.lo, hi |-> chunk.hi]

\* One iteration of the loop of performESDelete (lines 697-722).
DeleteChunk ==
    /\ op = "delete" /\ pc = "loop"
    /\ DeleteLoopCondition(i, SliceLen(ids))
    /\ LET endIndex == ChunkEnd(i, SliceLen(ids))
           body == DeleteBody(SubSlice(ids, i, endIndex))
       IN  \E resp \in BulkAnswers(body) :
              LET e == performESBulk(resp) IN
              /\ requests' = Append(requests, BulkRequest(body))
              /\ responses' = Append(responses, resp)
              /\ bulkErrs' = Append(bulkErrs, e)
              /\ IF e # Nil
                 THEN pc' = "done" /\ err' = e /\ i' = i
                 ELSE pc' = pc /\ err' = err /\ i' = DeleteStep(i)
    /\ UNCHANGED <<op, readVars, bulkVars, cancelled, callerQuery>>

\* The loop of performESDelete ends: return nil (line 723).
DeleteReturn ==
    /\ op = "delete" /\ pc = "loop"
    /\ ~DeleteLoopCondition(i, SliceLen(ids))
    /\ pc' = "done"
    /\ err' = Nil
    /\ UNCHANGED <<op, readVars, bulkVars, cancelled, callerQuery, requests, responses, i, bulkErrs>>

\* json.Marshal fails on a document of docs (lines 616-620, 664-668)
MarshalFails(docs) == badDoc > docs.lo /\ badDoc <= docs.hi

\* A create header and the document, two lines per document, in order.
getInsertRequestBody(docs) ==
    IF MarshalFails(docs)
    THEN [body |-> [action |-> "none", lo |-> 0, hi |-> 0], err |-> "json: unsupported type"]
    ELSE [body |-> [action |-> "create", lo |-> docs.lo, hi |-> docs.hi], err |-> Nil]

\* An update header with retry_on_conflict and {doc, doc_as_upsert: true}.
getUpsertRequestBody(docs) ==
    IF MarshalFails(docs)
    THEN [body |-> [action |-> "none", lo |-> 0, hi |-> 0], err |-> "json: unsupported type"]
    ELSE [body |-> [action |-> "update", lo |-> docs.lo, hi |-> docs.hi,
                    retry_on_conflict |-> RetryOnConflict, doc_as_upsert |-> TRUE],
          err |-> Nil]

\* ------------------------------------------------------------- wire body
\* The bulk body is newline-delimited JSON; a line is the JSON object it
\* holds, as a record.  The identifier of the item at position p of the
\* input list (ids[p-1], or the ID field of documents[p-1]) is p.
IndexName == "indexName"

CreateHeader(p) == [create |-> [_index |-> IndexName, _id |-> p, _type |-> "_doc"]]

UpsertHeader(p) ==
    [update |-> [_index |-> IndexName, _id |-> p, _type |-> "_doc",
                 retry_on_conflict |-> RetryOnConflict]]

DeleteHeader(p) == [delete |-> [_index |-> IndexName, _id |-> p]]

\* json.Marshal(document)
DocumentJSON(p) == [ID |-> p]

UpsertPayload(p) == [doc |-> DocumentJSON(p), doc_as_upsert |-> TRUE]

\* The loop of getInsertRequestBody: iteration k (document lo + k) writes
\* line 2k-1 (header) and line 2k (document).  InsertLine is line n.
InsertLine(lo, n) ==
    IF n % 2 = 1 THEN CreateHeader(lo + (n + 1) \div 2)
    ELSE DocumentJSON(lo + n \div 2)

InsertLineCount(lo, hi) == 2 * (hi - lo)

UpsertLineStaleId(lo, n) ==
    IF n % 2 = 1 THEN UpsertHeader(lo + 1)
    ELSE UpsertPayload(lo + n \div 2)

\* The loop of getUpsertRequestBody: iteration k writes line 2k-1 (header)
\* and line 2k ({doc, doc_as_upsert}).
UpsertLine(lo, n) ==
    IF n % 2 = 1 THEN UpsertHeader(lo + (n + 1) \div 2)
    ELSE UpsertPayload(lo + n \div 2)

UpsertLineCount(lo, hi) == 2 * (hi - lo)

\* The inner loop of performESDelete: iteration k writes line k (header).
DeleteLine(lo, n) == DeleteHeader(lo + n)

DeleteLineCount(lo, hi) == hi - lo

\* The string handed to performESBulk, split into lines: their number, and
\* line n.
WireLen(body) ==
    CASE body.action = "create" -> InsertLineCount(body.lo, body.hi)
      [] body.action = "update" -> UpsertLineCount(body.lo, body.hi)
      [] body.action = "delete" -> DeleteLineCount(body.lo, body.hi)
      [] OTHER -> 0

WireLine(body, n) ==
    CASE body.action = "create" -> InsertLine(body.lo, n)
      [] body.action = "update" -> UpsertLine(body.lo, n)
      [] OTHER -> DeleteLine(body.lo, n)

\* Build the body and hand it to performESBulk; log.Fatalf ends the
\* process when the body cannot be built (lines 591-593, 630-632).
BuildAndDispatch(b) ==
    IF b.err # Nil
    THEN /\ pc' = "fatal"
         /\ err' = b.err
         /\ UNCHANGED <<requests, responses, bulkErrs>>
    ELSE \E resp \in BulkAnswers(b.body) :
            /\ requests' = Append(requests, BulkRequest(b.body))
            /\ responses' = Append(responses, resp)
            /\ bulkErrs' = Append(bulkErrs, performESBulk(resp))
            /\ pc' = "done"
            /\ err' = performESBulk(resp)

performESInsert ==
    /\ op = "insert" /\ pc = "loop"
    /\ IF SliceLen(documents) = 0
       THEN /\ pc' = "done"
            /\ err' = Nil
            /\ UNCHANGED <<requests, responses, bulkErrs>>
       ELSE BuildAndDispatch(getInsertRequestBody(documents))
    /\ UNCHANGED <<op, readVars, bulkVars, cancelled, callerQuery, i>>

performESUpsert ==
    /\ op = "upsert" /\ pc = "loop"
    /\ BuildAndDispatch(getUpsertRequestBody(documents))
    /\ UNCHANGED <<op, readVars, bulkVars, cancelled, callerQuery, i>>

\* ----------------------------------------------------------- cancellation
\* The caller's deadline passes, or it aborts, while the entry point runs.
\* Every request is made with context.Background() (lines 387, 479, 824),
\* which is never cancelled, so nothing in the code reads this.
Cancel ==
    /\ pc = "loop"
    /\ ~cancelled
    /\ cancelled' = TRUE
    /\ UNCHANGED <<op, readVars, bulkVars, requests, responses, pc, i, err,
                   bulkErrs, callerQuery>>

\* ------------------------------------------------------------------ spec
Ops == {"main", "scroll", "delete", "insert", "upsert"}

IdCounts ==
    {n \in {k * ChunkSize + d : k \in 0 .. MaxChunks, d \in {-1, 0, 1}} : n >= 0}

DocCounts == (0 .. MaxOps) \cup {ChunkSize, ChunkSize + 1}

Totals ==
    (0 .. MaxDocs) \cup
    {k * PageSize + d : k \in 1 .. MaxFullPages, d \in {-1, 0, 1}}

Init ==
    /\ op \in Ops
    /\ total \in IF op \in {"main", "scroll"} THEN Totals ELSE {0}
    /\ size \in IF op = "scroll" THEN 1 .. MaxSize ELSE {PageSize}
    /\ ids \in IF op = "delete"
               THEN {[lo |-> 0, hi |-> n] : n \in IdCounts}
               ELSE {[lo |-> 0, hi |-> 0]}
    /\ documents \in IF op \in {"insert", "upsert"}
                     THEN {[lo |-> 0, hi |-> n] : n \in DocCounts}
                     ELSE {[lo |-> 0, hi |-> 0]}
    /\ badDoc \in IF op \in {"insert", "upsert"}
                  THEN {p \in {0, 1} : p <= documents.hi}
                  ELSE {0}
    /\ bulkErrs = <<>>
    /\ cancelled = FALSE
    /\ callerQuery = [size |-> size, query |-> "match_all"]
    /\ scrolls = <<>>
    /\ requests = <<>>
    /\ responses = <<>>
    /\ pc = "loop"
    /\ i = 0
    /\ scrollID = EmptyScrollID
    /\ esDocuments = <<>>
    /\ err = Nil
    /\ stdout = <<>>
    /\ calls = <<>>

Next ==
    \/ MainIterate
    \/ MainPrint
    \/ \E from \in {0, LoopStep} : CallScrollSearch(from)
    \/ CallGetESDataAndBuildScroll
    \/ CallGetESDataWithScroll
    \/ DeleteChunk
    \/ DeleteReturn
    \/ performESInsert
    \/ performESUpsert
    \/ Cancel

Spec == Init /\ [][Next]_vars

\* ---------------------------------------------------------------- claims
\* The page a successful response carries, as the code hands it on.
RECURSIVE PagesOf(_)
PagesOf(resps) ==
    IF resps = <<>> THEN <<>>
    ELSE (IF resps[1].status = "ok"
          THEN <<[isNil |-> FALSE, total |-> resps[1].result.total,
                  hits |-> resps[1].result.hits]>>
          ELSE <<>>) \o PagesOf(Tail(resps))

\* C1: every fetch that the engine answered returns a non-empty
\* continuation token if and only if it returned exactly `size` hits.
C1_TokenIffFullPage ==
    \A k \in 1 .. Len(calls) :
        LET c == calls[k] IN
        c.resp.status = "ok" =>
            ((c.ret.scrollID # EmptyScrollID) <=>
             (HitsLen(c.resp.result.hits) = c.size))

\* C2: when the collection of main ends without a failed fetch it holds
\* min(maxPages, index of the first page with fewer than PageSize hits)
\* pages, and the cursor is exhausted if that short page was reached.
C2_CollectsUntilExhaustedOrCap ==
    (op = "main" /\ pc = "printed") =>
        /\ Len(esDocuments) = Min2(LoopBound, (total \div PageSize) + 1)
        /\ (Len(esDocuments) < LoopBound => scrollID = EmptyScrollID)

\* C3: the collection of main sends at most maxPages fetch requests and
\* what it has collected is exactly the successfully fetched pages, in
\* the order they arrived.
C3_AtMostCapFetchesInOrder ==
    op = "main" =>
        /\ Len(requests) <= LoopBound
        /\ esDocuments = PagesOf(responses)

C3_Witness ==
    /\ op = "main"
    /\ Len(requests) = 1
    /\ Len(esDocuments) = 1
    /\ HitsLen(esDocuments[1].hits) = PageSize

\* C4: a continuation fetch attempted once the cursor of the query is
\* exhausted (empty token after a successful fetch) is rejected with an
\* error and leaves the cursor exhausted; it is never answered with a
\* page and a nil error.
C4_FetchAfterExhaustedRejected ==
    \A k \in 2 .. Len(calls) :
        LET c == calls[k] IN
        (/\ c.from # 0
         /\ c.scrollID = EmptyScrollID
         /\ \E j \in 1 .. (k - 1) : calls[j].ret.err = Nil)
        => (c.ret.err # Nil /\ c.ret.scrollID = EmptyScrollID)

\* C5: when a fetch of the collection of main fails, the pages collected
\* before the failure are handed on (printed, the only output of main)
\* and not discarded.
C5_PartialPagesReturnedOnError ==
    (op = "main" /\ pc = "returned") =>
        (err # Nil /\ stdout = <<esDocuments>>)

BulkOps == {"delete", "insert", "upsert"}

CeilDiv(a, b) == (a + b - 1) \div b

\* C6: a bulk dispatch returns a non-nil error whenever the request cannot
\* be sent and whenever the response has an error status.
C6_BulkErrorSurfaced ==
    op \in BulkOps =>
        \A k \in 1 .. Len(bulkErrs) :
            responses[k].status \in {"transport", "status"} => bulkErrs[k] # Nil

\* The rejected items the result of a dispatch names.  The result of
\* performESBulk is a single Go error (line 814): nil, or the error of
\* req.Do; neither carries an item-level status.
ItemFailuresNamed(e) == {}

\* C7: for a transport-successful bulk response the result of the dispatch
\* names exactly the items the engine rejected as failed (and so the
\* others as succeeded).
C7_ItemFailuresReported ==
    op \in BulkOps =>
        \A k \in 1 .. Len(bulkErrs) :
            responses[k].status = "ok" =>
                ItemFailuresNamed(bulkErrs[k]) = responses[k].failed

\* C8: performESDelete dispatches every chunk of its input whatever the
\* outcomes of the earlier chunks were: when it returns, all
\* ceil(L / ChunkSize) chunks have been dispatched.
C8_AllChunksDispatchedDespiteError ==
    (op = "delete" /\ pc = "done") =>
        Len(requests) = CeilDiv(SliceLen(ids), ChunkSize)

\* C9: when no dispatch fails, performESDelete sends exactly
\* ceil(L / ChunkSize) bulk requests, each of at most ChunkSize delete
\* operations, only the last possibly shorter, and the chunks in dispatch
\* order tile the input list: first chunk starts at ids[0], each chunk
\* starts where the previous ended, the last ends at ids[L-1].
C9_ChunksPartitionInput ==
    (op = "delete" /\ pc = "done" /\ err = Nil) =>
        LET m == Len(requests) IN
        /\ m = CeilDiv(SliceLen(ids), ChunkSize)
        /\ \A k \in 1 .. m :
              LET b == requests[k].body IN
              /\ requests[k].kind = "bulk" /\ b.action = "delete"
              /\ SliceLen(b) >= 1 /\ SliceLen(b) <= ChunkSize
              /\ (k < m => SliceLen(b) = ChunkSize)
              /\ b.lo = (IF k = 1 THEN ids.lo ELSE requests[k - 1].body.hi)
              /\ (k = m => b.hi = ids.hi)

C9_Witness ==
    /\ op = "delete" /\ pc = "done" /\ err = Nil
    /\ Len(requests) = 3
    /\ SliceLen(requests[3].body) < ChunkSize
    /\ SliceLen(ids) > 2 * ChunkSize

\* C10: every bulk request of a bulk write of create or upsert operations
\* carries at most ChunkSize operations.
C10_WriteRequestsBounded ==
    op \in {"insert", "upsert"} =>
        \A k \in 1 .. Len(requests) : SliceLen(requests[k].body) <= ChunkSize

ActionKeys == {"create", "update", "delete"}

IsActionLine(line) == DOMAIN line \subseteq ActionKeys

ActionOf(line) == CHOOSE a \in ActionKeys : a \in DOMAIN line

\* C11: the body of the bulk request just dispatched has, per operation of
\* the chunk and in input order, an action line that carries the identifier
\* of that operation, followed for a create by the raw document and for an
\* update (with retry_on_conflict) by {doc, doc_as_upsert: true}, and by
\* nothing for a delete: 2 lines per create / upsert, 1 line per delete.
C11_WireBodyLines ==
    (op \in BulkOps /\ requests # <<>>) =>
        LET b == requests[Len(requests)].body
            n == SliceLen(b)
            per == IF b.action = "delete" THEN 1 ELSE 2
        IN  /\ WireLen(b) = per * n
            /\ \A k \in 1 .. n :
                  LET h == WireLine(b, per * (k - 1) + 1) IN
                  /\ IsActionLine(h)
                  /\ ActionOf(h) = b.action
                  /\ h[b.action]._id = b.lo + k
                  /\ h[b.action]._index = IndexName
                  /\ (b.action = "update" =>
                        /\ h.update.retry_on_conflict = RetryOnConflict
                        /\ WireLine(b, 2 * k) = [doc |-> DocumentJSON(b.lo + k),
                                                 doc_as_upsert |-> TRUE])
                  /\ (b.action = "create" =>
                        WireLine(b, 2 * k) = DocumentJSON(b.lo + k))

C11_Witness ==
    /\ op = "upsert"
    /\ Len(requests) = 1
    /\ SliceLen(requests[1].body) = MaxOps
    /\ WireLen(requests[1].body) = 2 * MaxOps

\* A response that arrived with a success status.
TransportOK(resp) == resp.status \in {"ok", "parse"}

\* C12: a dispatch whose response is transport-successful returns nil
\* whatever item statuses the response carries, and when every response of
\* a performESDelete is transport-successful all ceil(L / ChunkSize) chunks
\* are dispatched and nil is returned.
C12_ItemFailureNeverAborts ==
    op = "delete" =>
        /\ \A k \in 1 .. Len(bulkErrs) :
              TransportOK(responses[k]) => bulkErrs[k] = Nil
        /\ (pc = "done" /\ \A k \in 1 .. Len(responses) : TransportOK(responses[k]))
              => (err = Nil /\ Len(requests) = CeilDiv(SliceLen(ids), ChunkSize))

C12_Witness ==
    /\ op = "delete" /\ pc = "done"
    /\ Len(requests) = 3
    /\ \A k \in 1 .. 3 : responses[k].status = "ok"
    /\ responses[1].failed # {}
    /\ responses[2].failed # {}

\* The token returned by the latest successful call before call k, the
\* empty token if there is none.
RECURSIVE LatestToken(_)
LatestToken(k) ==
    IF k <= 1 THEN EmptyScrollID
    ELSE IF calls[k - 1].ret.err = Nil THEN calls[k - 1].ret.scrollID
    ELSE LatestToken(k - 1)

\* C13: the first fetch of a query (from = 0) is a search request that
\* carries the query with its page size; every later fetch is a scroll
\* request that carries a token and nothing else, and the token is the one
\* the preceding fetch of the query returned, never an older one.
C13_SearchThenScrollWithLatestToken ==
    /\ op = "main" =>
          \A k \in 1 .. Len(requests) :
              IF k = 1
              THEN requests[k] = [kind |-> "search", query |-> [size |-> PageSize]]
              ELSE /\ requests[k].kind = "scroll"
                   /\ DOMAIN requests[k] = {"kind", "scroll_id"}
                   /\ responses[k - 1].status = "ok"
                   /\ requests[k].scroll_id = responses[k - 1].result.scroll_id
    /\ op = "scroll" =>
          \A k \in 1 .. Len(calls) :
              LET c == calls[k] IN
              /\ c.from = 0 =>
                    (c.req.kind = "search" /\ c.req.query.size = c.size)
              /\ (c.from # 0 /\ c.req # NoRequest) =>
                    /\ c.req.kind = "scroll"
                    /\ DOMAIN c.req = {"kind", "scroll_id"}
                    /\ c.req.scroll_id # EmptyScrollID
                    /\ c.req.scroll_id = LatestToken(k)

C13_Witness ==
    /\ op = "scroll"
    /\ Len(calls) = 3
    /\ calls[1].from = 0
    /\ calls[2].req.kind = "scroll" /\ calls[2].ret.err = Nil
    /\ calls[3].req.kind = "scroll"
    /\ calls[3].req.scroll_id = calls[2].ret.scrollID
    /\ calls[3].req.scroll_id # calls[1].ret.scrollID

\* C14: performESDelete reports success (returns nil) only when every
\* chunk of its input has been dispatched and answered: for each chunk
\* start c * ChunkSize below L there is a request that begins there, and
\* every request has its response.
C14_SuccessOnlyAfterAllChunks ==
    (op = "delete" /\ pc = "done" /\ err = Nil) =>
        /\ Len(responses) = Len(requests)
        /\ Len(bulkErrs) = Len(requests)
        /\ \A c \in 0 .. (CeilDiv(SliceLen(ids), ChunkSize) - 1) :
              \E k \in 1 .. Len(requests) :
                  /\ requests[k].body.lo = ids.lo + c * ChunkSize
                  /\ requests[k].body.hi = Min2(ids.lo + (c + 1) * ChunkSize, ids.hi)

C14_Witness ==
    /\ op = "delete" /\ pc = "done" /\ err = Nil
    /\ SliceLen(ids) = 2 * ChunkSize
    /\ Len(responses) = 2

\* The number of calls of the caller that sent a request.
RECURSIVE SentBy(_)
SentBy(k) ==
    IF k = 0 THEN 0
    ELSE SentBy(k - 1) + (IF calls[k].req = NoRequest THEN 0 ELSE 1)

\* C15: no request is retried: a call of a scroll helper sends at most one
\* request, main sends nothing after a failed fetch, and every chunk of a
\* bulk operation goes out in exactly one bulk request, also after a
\* request that failed.
C15_NoRetry ==
    /\ op = "scroll" => Len(requests) = SentBy(Len(calls))
    /\ op = "main" =>
          \A k \in 1 .. Len(requests) :
              k < Len(requests) => responses[k].status = "ok"
    /\ op \in {"insert", "upsert"} => Len(requests) <= 1
    /\ op = "delete" =>
          \A j, k \in 1 .. Len(requests) :
              j < k => /\ requests[j].body # requests[k].body
                       /\ requests[k].body.lo >= requests[j].body.hi

C15_Witness ==
    /\ op = "delete"
    /\ Len(requests) = 2
    /\ responses[1].status = "status"
    /\ requests[2].body.lo = requests[1].body.hi

\* C16: once the caller has requested cancellation no new page fetch and
\* no new chunk dispatch is started.
C16_CancellationObserved ==
    [][cancelled => requests' = requests]_vars

\* C17: the read path never mutates the caller's query: after every call
\* of GetESDataAndBuildScroll, failed or not, the map holds the keys and
\* values it held when it was passed in.
C17_QueryNotMutated ==
    op = "scroll" =>
        /\ callerQuery = [size |-> size, query |-> "match_all"]
        /\ \A k \in 1 .. Len(calls) :
              calls[k].fn = "GetESDataAndBuildScroll" => calls[k].query = callerQuery

C17_Witness ==
    /\ op = "scroll"
    /\ Len(calls) = 2
    /\ calls[1].fn = "GetESDataAndBuildScroll" /\ calls[1].ret.err = Nil
    /\ calls[2].fn = "GetESDataAndBuildScroll" /\ calls[2].ret.err # Nil

\* C18: a continuation step taken with an exhausted cursor (empty token)
\* sends no request to the engine, and every scroll request the engine
\* receives carries a non-empty token.
C18_NoScrollRequestWithoutToken ==
    /\ \A k \in 1 .. Len(calls) :
          (calls[k].from # 0 /\ calls[k].scrollID = EmptyScrollID)
              => calls[k].req = NoRequest
    /\ \A k \in 1 .. Len(requests) :
          requests[k].kind = "scroll" => requests[k].scroll_id # EmptyScrollID

C18_Witness ==
    /\ op = "scroll"
    /\ Len(calls) = 3
    /\ calls[1].ret.err = Nil /\ calls[1].ret.scrollID = EmptyScrollID
    /\ calls[2].fn = "GetESDataWithScroll" /\ calls[2].req = NoRequest
    /\ calls[3].fn = "scrollSearch" /\ calls[3].from # 0
    /\ calls[3].req = NoRequest
    /\ Len(requests) = 1

\* C19: whenever scrollSearch, GetESDataAndBuildScroll or
\* GetESDataWithScroll returns an error, the page it returns is nil and the
\* token it returns is empty.
C19_ErrorReturnsNilPageEmptyToken ==
    \A k \in 1 .. Len(calls) :
        calls[k].ret.err # Nil =>
            (calls[k].ret.doc.isNil /\ calls[k].ret.scrollID = EmptyScrollID)

C19_Witness ==
    /\ op = "scroll"
    /\ Len(calls) = 3
    /\ calls[1].fn = "GetESDataAndBuildScroll" /\ calls[1].ret.err # Nil
    /\ calls[2].fn = "scrollSearch" /\ calls[2].ret.err = Nil
    /\ calls[3].fn = "scrollSearch" /\ calls[3].req.kind = "scroll"
    /\ calls[3].ret.err # Nil

\* C20: every bulk request dispatched by performESInsert, performESUpsert
\* and performESDelete contains at least one action line, and for an empty
\* input list each of them returns nil without sending a request.
C20_NoEmptyBulkRequest ==
    op \in BulkOps =>
        /\ \A k \in 1 .. Len(requests) : WireLen(requests[k].body) >= 1
        /\ (pc = "done" /\ SliceLen(ids) = 0 /\ SliceLen(documents) = 0)
              => (err = Nil /\ requests = <<>>)

====
